---- MODULE Spec2Model ----
(***************************************************************************)
(* Model of parking_monitor: Monitor<T> (a parking_lot Mutex<T> plus a     *)
(* Condvar) and MonitorGuard<T> (the MutexGuard bundled with a reference   *)
(* to the Monitor's Condvar), src/src/lib.rs.                              *)
(*                                                                         *)
(* One Monitor<u32-like counter> is shared by a fixed set of threads.      *)
(* Every public operation of the safe surface is one action; a call that   *)
(* may block is split at its blocking point (the call parks the thread,    *)
(* a later step of the same call acquires the mutex or gives up).          *)
(* Time is abstracted: the bound of a bounded call may elapse at any       *)
(* moment while the thread is parked.                                      *)
(***************************************************************************)
EXTENDS Naturals, Sequences, FiniteSets

\* ---------------------------------------------------------------- bounds
NumThreads == 3
MaxOps == 3
NumCycles == 2
NumForeign == 2

\* Largest value the counter can take: a thread adds at most one per call.
MaxVal == NumThreads * (MaxOps + NumCycles)

Threads == 1..NumThreads
None == 0

\* Identities of condition variables and mutexes: the Monitor's own pair, and
\* parking_lot Condvars and Mutexes the caller owns outside any Monitor.
Own == 0
Foreign == 1..NumForeign

VARIABLES
    owner,   \* Monitor.mutex lock state: the thread whose acquisition holds it, or None
    value,   \* Monitor.mutex data: the guarded T
    cvq,     \* Monitor.cv: threads parked on the condition variable, in arrival order
    mq,      \* Monitor.mutex: threads parked on the mutex, in arrival order
    guard,   \* per thread, the state of its MonitorGuard: "none", "Acquired", "Waiting"
    pc,      \* per thread, where it is: "idle" or the call it is blocked in
    ret,     \* per thread, the result of its last acquisition or wait call
    local,   \* per thread, the last value it read through Deref
    inwith,  \* per thread, TRUE while it is inside a with_lock-style combinator
    nacq,    \* per thread, number of MonitorGuards created for it
    nrel,    \* per thread, number of mutex unlocks done by drops of its guards
    prog,    \* per thread, the calls its caller still makes ("*": any one call)
    nf,      \* per thread, number of times a combinator has invoked its f
    ext      \* per thread, the (cv, mutex) of a guard it built with MonitorGuard::new

vars == <<owner, value, cvq, mq, guard, pc, ret, local, inwith, nacq, nrel, prog,
          nf, ext>>

\* ------------------------------------------------------------ sequences
RECURSIVE Without(_, _)
Without(s, t) ==
    IF s = <<>> THEN <<>>
    ELSE IF Head(s) = t THEN Without(Tail(s), t)
    ELSE <<Head(s)>> \o Without(Tail(s), t)

Range(s) == {s[i] : i \in 1..Len(s)}

RECURSIVE Repeat(_, _)
Repeat(s, n) == IF n = 0 THEN <<>> ELSE s \o Repeat(s, n - 1)

\* ------------------------------------------------------ caller programs
\* A program is the list of calls a thread still makes, in order; "*" stands
\* for any one call of the safe surface.
May(t, op) == prog[t] # <<>> /\ Head(prog[t]) \in {"*", op}

Adv(t) == prog' = [prog EXCEPT ![t] = Tail(@)]

AnyProg == Repeat(<<"*">>, MaxOps)
CounterProg == Repeat(<<"lock", "read", "write", "drop">>, NumCycles)
WaiterProg == <<"lock", "read", "wait", "read", "drop">>
WithLockProg == Repeat(<<"with_lock", "read", "write", "f_return">>, NumCycles)
NotifierProg(n) == <<"lock", "read", "write", n, "drop">>

\* ------------------------------------------------------------- helpers
\* MonitorGuard::new around a freshly obtained MutexGuard.
NewGuard(t, r) ==
    /\ owner' = t
    /\ guard' = [guard EXCEPT ![t] = "Acquired"]
    /\ nacq' = [nacq EXCEPT ![t] = @ + 1]
    /\ ret' = [ret EXCEPT ![t] = r]

\* The calling thread parks on the mutex queue in state p.
Park(t, p) ==
    /\ pc' = [pc EXCEPT ![t] = p]
    /\ mq' = Append(mq, t)
    /\ UNCHANGED <<owner, guard, nacq, ret>>

CanCall(t) == pc[t] = "idle"

\* The combinators apply f to the guard once they have one: f(self.lock()),
\* self.try_lock*().map(f).
CallF(t, now) == nf' = IF now THEN [nf EXCEPT ![t] = @ + 1] ELSE nf

Holds(t) == pc[t] = "idle" /\ guard[t] = "Acquired"

\* ------------------------------------------------------- initial state
TypeOK ==
    /\ owner \in Threads \cup {None}
    /\ value \in 0..MaxVal
    /\ Range(cvq) \subseteq Threads
    /\ Range(mq) \subseteq Threads
    /\ guard \in [Threads -> {"none", "Acquired", "Waiting"}]
    /\ pc \in [Threads -> {"idle", "lock", "lock_for", "wait", "wait_for", "reacq", "relock"}]
    /\ ret \in [Threads -> {"init", "Some", "None", "f_done", "woken", "notified",
                            "timed_out", "unlocked", "unlocked_fair"}]
    /\ local \in [Threads -> 0..MaxVal]
    /\ inwith \in [Threads -> BOOLEAN]
    /\ \A t \in Threads : ext[t] = <<>> \/ Len(ext[t]) = 2
    /\ nacq \in [Threads -> 0..(MaxOps + NumCycles)]
    /\ nrel \in [Threads -> 0..(MaxOps + NumCycles)]
    /\ nf \in [Threads -> 0..(MaxOps + NumCycles)]

InitMonitor ==
    /\ owner = None
    /\ value = 0
    /\ cvq = <<>>
    /\ mq = <<>>
    /\ guard = [t \in Threads |-> "none"]
    /\ pc = [t \in Threads |-> "idle"]
    /\ ret = [t \in Threads |-> "init"]
    /\ local = [t \in Threads |-> 0]
    /\ inwith = [t \in Threads |-> FALSE]
    /\ nacq = [t \in Threads |-> 0]
    /\ nrel = [t \in Threads |-> 0]
    /\ nf = [t \in Threads |-> 0]
    /\ ext = [t \in Threads |-> <<>>]

Init == InitMonitor /\ prog = [t \in Threads |-> AnyProg]

\* --------------------------------------------------------- acquisition
\* Mutant: lock that takes the mutex whether or not it is held.
LockBarge(t) ==
    /\ CanCall(t) /\ ~inwith[t] /\ May(t, "lock") /\ Adv(t)
    /\ NewGuard(t, "Some")
    /\ UNCHANGED <<pc, mq, value, cvq, local, inwith, nrel>>
    /\ UNCHANGED <<nf, ext>>

\* Mutant: a reentrant lock, which succeeds when the caller is the holder.
LockReentrant(t) ==
    /\ CanCall(t) /\ ~inwith[t] /\ May(t, "lock") /\ Adv(t)
    /\ IF owner \in {None, t}
       THEN NewGuard(t, "Some") /\ UNCHANGED <<pc, mq>>
       ELSE Park(t, "lock")
    /\ UNCHANGED <<value, cvq, local, inwith, nrel>>
    /\ UNCHANGED <<nf, ext>>

\* Monitor::lock: take the mutex if it is free, else park until it is.
Lock(t) ==
    /\ CanCall(t) /\ ~inwith[t] /\ May(t, "lock") /\ Adv(t)
    /\ IF owner = None
       THEN NewGuard(t, "Some") /\ UNCHANGED <<pc, mq>>
       ELSE Park(t, "lock")
    /\ UNCHANGED <<value, cvq, local, inwith, nrel>>
    /\ UNCHANGED <<nf, ext>>

\* Monitor::try_lock_for / try_lock_until share one path: take the mutex if
\* it is free, else park with a deadline.
BoundedLock(t) ==
    /\ IF owner = None
       THEN NewGuard(t, "Some") /\ UNCHANGED <<pc, mq>>
       ELSE Park(t, "lock_for")
    /\ UNCHANGED <<value, cvq, local, nrel>>

\* Mutant: try_lock that succeeds whether or not the mutex is held.
TryLockBarge(t) ==
    /\ CanCall(t) /\ ~inwith[t] /\ May(t, "try_lock") /\ Adv(t)
    /\ NewGuard(t, "Some")
    /\ UNCHANGED <<value, cvq, mq, pc, local, inwith, nrel>>
    /\ UNCHANGED <<nf, ext>>

\* Mutant: try_lock that parks with a deadline when the mutex is held.
TryLockParks(t) ==
    /\ CanCall(t) /\ ~inwith[t] /\ May(t, "try_lock") /\ Adv(t)
    /\ BoundedLock(t)
    /\ UNCHANGED inwith
    /\ UNCHANGED <<nf, ext>>

\* Monitor::try_lock: never parks.
TryLock(t) ==
    /\ CanCall(t) /\ ~inwith[t] /\ May(t, "try_lock") /\ Adv(t)
    /\ IF owner = None
       THEN NewGuard(t, "Some")
       ELSE ret' = [ret EXCEPT ![t] = "None"] /\ UNCHANGED <<owner, guard, nacq>>
    /\ UNCHANGED <<value, cvq, mq, pc, local, inwith, nrel>>
    /\ UNCHANGED <<nf, ext>>

TryLockFor(t) ==
    /\ CanCall(t) /\ ~inwith[t] /\ May(t, "try_lock_for") /\ Adv(t)
    /\ BoundedLock(t)
    /\ UNCHANGED inwith
    /\ UNCHANGED <<nf, ext>>

TryLockUntil(t) ==
    /\ CanCall(t) /\ ~inwith[t] /\ May(t, "try_lock_until") /\ Adv(t)
    /\ BoundedLock(t)
    /\ UNCHANGED inwith
    /\ UNCHANGED <<nf, ext>>

\* Mutant: a parked acquirer that takes the mutex without it being free.
LockAcquireBarge(t) ==
    /\ pc[t] \in {"lock", "lock_for"}
    /\ NewGuard(t, "Some")
    /\ pc' = [pc EXCEPT ![t] = "idle"]
    /\ mq' = Without(mq, t)
    /\ UNCHANGED <<value, cvq, local, inwith, nrel, prog>>
    /\ CallF(t, inwith[t]) /\ UNCHANGED ext

\* A thread parked in lock / try_lock_for / try_lock_until finds the mutex
\* free and takes it; the call returns the new guard.
LockAcquire(t) ==
    /\ pc[t] \in {"lock", "lock_for"}
    /\ owner = None
    /\ NewGuard(t, "Some")
    /\ pc' = [pc EXCEPT ![t] = "idle"]
    /\ mq' = Without(mq, t)
    /\ UNCHANGED <<value, cvq, local, inwith, nrel, prog>>
    /\ CallF(t, inwith[t]) /\ UNCHANGED ext

\* Mutant: a timed-out acquisition that leaves the thread on the mutex queue.
LockTimeoutStale(t) ==
    /\ pc[t] = "lock_for"
    /\ pc' = [pc EXCEPT ![t] = "idle"]
    /\ ret' = [ret EXCEPT ![t] = "None"]
    /\ inwith' = [inwith EXCEPT ![t] = FALSE]
    /\ UNCHANGED <<owner, value, cvq, mq, guard, local, nacq, nrel, prog>>
    /\ UNCHANGED <<nf, ext>>

\* Mutant: a timed-out try_with_lock_for / _until that applies f all the same.
LockTimeoutCallsF(t) ==
    /\ pc[t] = "lock_for"
    /\ pc' = [pc EXCEPT ![t] = "idle"]
    /\ mq' = Without(mq, t)
    /\ ret' = [ret EXCEPT ![t] = "None"]
    /\ inwith' = [inwith EXCEPT ![t] = FALSE]
    /\ UNCHANGED <<owner, value, cvq, guard, local, nacq, nrel, prog>>
    /\ CallF(t, inwith[t]) /\ UNCHANGED ext

\* The bound of try_lock_for / try_lock_until elapses while parked: None.
\* For the try_with_lock_* combinators Option::map then skips f.
LockTimeout(t) ==
    /\ pc[t] = "lock_for"
    /\ pc' = [pc EXCEPT ![t] = "idle"]
    /\ mq' = Without(mq, t)
    /\ ret' = [ret EXCEPT ![t] = "None"]
    /\ inwith' = [inwith EXCEPT ![t] = FALSE]
    /\ UNCHANGED <<owner, value, cvq, guard, local, nacq, nrel, prog>>
    /\ UNCHANGED <<nf, ext>>

\* ------------------------------------------------------------ the guard
\* Deref: read the guarded value.
Read(t) ==
    /\ Holds(t) /\ May(t, "read") /\ Adv(t)
    /\ local' = [local EXCEPT ![t] = value]
    /\ UNCHANGED <<owner, value, cvq, mq, guard, pc, ret, inwith, nacq, nrel>>
    /\ UNCHANGED <<nf, ext>>

\* Mutant: a store through any live guard, suspended in a wait or not.
WriteWhileWaiting(t) ==
    /\ guard[t] # "none" /\ May(t, "write") /\ Adv(t)
    /\ value' = local[t] + 1
    /\ UNCHANGED <<owner, cvq, mq, guard, pc, ret, local, inwith, nacq, nrel>>
    /\ UNCHANGED <<nf, ext>>

\* DerefMut: store the value read before, plus one.
Write(t) ==
    /\ Holds(t) /\ May(t, "write") /\ Adv(t)
    /\ value' = local[t] + 1
    /\ UNCHANGED <<owner, cvq, mq, guard, pc, ret, local, inwith, nacq, nrel>>
    /\ UNCHANGED <<nf, ext>>

\* Mutant: a drop that counts as a release but leaves the mutex locked.
UnlockSkip(t) ==
    /\ owner' = owner
    /\ nrel' = [nrel EXCEPT ![t] = @ + 1]

\* The guard goes out of scope (scope end, early return or unwind all run the
\* same drop glue): its MutexGuard field unlocks the mutex.
Unlock(t) ==
    /\ owner' = None
    /\ nrel' = [nrel EXCEPT ![t] = @ + 1]

\* Mutant: a drop that ends the guard but leaves the mutex locked.
DropHeld(t) ==
    /\ Holds(t) /\ ~inwith[t] /\ May(t, "drop") /\ Adv(t)
    /\ UNCHANGED <<owner, nrel>>
    /\ guard' = [guard EXCEPT ![t] = "none"]
    /\ UNCHANGED <<value, cvq, mq, pc, ret, local, inwith, nacq>>
    /\ UNCHANGED <<nf, ext>>

Drop(t) ==
    /\ Holds(t) /\ ~inwith[t] /\ May(t, "drop") /\ Adv(t)
    /\ Unlock(t)
    /\ guard' = [guard EXCEPT ![t] = "none"]
    /\ UNCHANGED <<value, cvq, mq, pc, ret, local, inwith, nacq>>
    /\ UNCHANGED <<nf, ext>>

\* ---------------------------------------------------- condition variable
\* MonitorGuard::notify_one: move one parked waiter (if any) from the condition
\* variable to the mutex; the notifier holds the mutex, so the waiter is
\* requeued behind it rather than run.
Requeue(ws) ==
    /\ pc' = [u \in Threads |-> IF u \in ws THEN "relock" ELSE pc[u]]
    /\ ret' = [u \in Threads |->
                 IF u \in ws
                 THEN (IF pc[u] = "wait" THEN "woken" ELSE "notified")
                 ELSE ret[u]]

\* Mutant: notify_one that also unlocks the mutex.
NotifyOneUnlocks(t) ==
    /\ Holds(t) /\ May(t, "notify_one") /\ Adv(t)
    /\ IF cvq = <<>>
       THEN UNCHANGED <<cvq, mq, pc, ret>>
       ELSE \E w \in Range(cvq) :
               /\ cvq' = Without(cvq, w)
               /\ mq' = Append(mq, w)
               /\ Requeue({w})
    /\ owner' = None
    /\ guard' = [guard EXCEPT ![t] = "none"]
    /\ UNCHANGED <<value, local, inwith, nacq, nrel>>
    /\ UNCHANGED <<nf, ext>>

NotifyOne(t) ==
    /\ Holds(t) /\ May(t, "notify_one") /\ Adv(t)
    /\ IF cvq = <<>>
       THEN UNCHANGED <<cvq, mq, pc, ret>>
       ELSE \E w \in Range(cvq) :
               /\ cvq' = Without(cvq, w)
               /\ mq' = Append(mq, w)
               /\ Requeue({w})
    /\ UNCHANGED <<owner, value, guard, local, inwith, nacq, nrel>>
    /\ UNCHANGED <<nf, ext>>

\* Mutant: notify_all that wakes only the longest-parked waiter.
NotifyAllButOne(t) ==
    /\ Holds(t) /\ May(t, "notify_all") /\ Adv(t)
    /\ IF cvq = <<>>
       THEN UNCHANGED <<cvq, mq, pc, ret>>
       ELSE /\ cvq' = Tail(cvq)
            /\ mq' = Append(mq, Head(cvq))
            /\ Requeue({Head(cvq)})
    /\ UNCHANGED <<owner, value, guard, local, inwith, nacq, nrel>>
    /\ UNCHANGED <<nf, ext>>

\* MonitorGuard::notify_all: move every parked waiter to the mutex.
NotifyAll(t) ==
    /\ Holds(t) /\ May(t, "notify_all") /\ Adv(t)
    /\ cvq' = <<>>
    /\ mq' = mq \o cvq
    /\ Requeue(Range(cvq))
    /\ UNCHANGED <<owner, value, guard, local, inwith, nacq, nrel>>
    /\ UNCHANGED <<nf, ext>>

\* Mutant: wait that unlocks the mutex without having enqueued the thread.
SuspendUnregistered(t, p) ==
    /\ cvq' = cvq
    /\ owner' = None
    /\ guard' = [guard EXCEPT ![t] = "Waiting"]
    /\ pc' = [pc EXCEPT ![t] = p]
    /\ UNCHANGED <<value, mq, ret, local, inwith, nacq, nrel>>

\* Condvar::wait*(&mut guard): enqueue on the condition variable and unlock the
\* mutex as one step; the guard stays alive, suspended.
Suspend(t, p) ==
    /\ cvq' = Append(cvq, t)
    /\ owner' = None
    /\ guard' = [guard EXCEPT ![t] = "Waiting"]
    /\ pc' = [pc EXCEPT ![t] = p]
    /\ UNCHANGED <<value, mq, ret, local, inwith, nacq, nrel>>

Wait(t) ==
    /\ Holds(t) /\ May(t, "wait") /\ Adv(t)
    /\ Suspend(t, "wait")
    /\ UNCHANGED <<nf, ext>>

WaitFor(t) ==
    /\ Holds(t) /\ May(t, "wait_for") /\ Adv(t)
    /\ Suspend(t, "wait_for")
    /\ UNCHANGED <<nf, ext>>

WaitUntil(t) ==
    /\ Holds(t) /\ May(t, "wait_until") /\ Adv(t)
    /\ Suspend(t, "wait_for")
    /\ UNCHANGED <<nf, ext>>

\* Mutant: a timed-out wait that returns at once, without relocking the mutex.
WaitTimeoutNoRelock(t) ==
    /\ pc[t] = "wait_for"
    /\ cvq' = Without(cvq, t)
    /\ pc' = [pc EXCEPT ![t] = "idle"]
    /\ guard' = [guard EXCEPT ![t] = "Acquired"]
    /\ ret' = [ret EXCEPT ![t] = "timed_out"]
    /\ UNCHANGED <<owner, value, mq, local, inwith, nacq, nrel, prog>>
    /\ UNCHANGED <<nf, ext>>

\* Mutant: a wake-up without notification that also ends an unbounded wait().
WaitTimeoutSpurious(t) ==
    /\ pc[t] \in {"wait", "wait_for"}
    /\ cvq' = Without(cvq, t)
    /\ pc' = [pc EXCEPT ![t] = "reacq"]
    /\ ret' = [ret EXCEPT ![t] = "timed_out"]
    /\ UNCHANGED <<owner, value, mq, guard, local, inwith, nacq, nrel, prog>>
    /\ UNCHANGED <<nf, ext>>

\* The bound of wait_for / wait_until elapses while parked on the condition
\* variable: the thread leaves the queue and goes on to relock the mutex.
WaitTimeout(t) ==
    /\ pc[t] = "wait_for"
    /\ cvq' = Without(cvq, t)
    /\ pc' = [pc EXCEPT ![t] = "reacq"]
    /\ ret' = [ret EXCEPT ![t] = "timed_out"]
    /\ UNCHANGED <<owner, value, mq, guard, local, inwith, nacq, nrel, prog>>
    /\ UNCHANGED <<nf, ext>>

\* The timed-out waiter locks the mutex again: at once if it is free, else it
\* parks on the mutex like a notified waiter.
Regain(t) ==
    /\ owner' = t
    /\ guard' = [guard EXCEPT ![t] = "Acquired"]
    /\ pc' = [pc EXCEPT ![t] = "idle"]
    /\ mq' = Without(mq, t)

\* Mutant: a timed-out waiter that returns when its bound elapses, taking the
\* mutex whether or not it is free.
WaitRelockBarge(t) ==
    /\ pc[t] = "reacq"
    /\ Regain(t)
    /\ UNCHANGED <<value, cvq, ret, local, inwith, nacq, nrel, prog>>
    /\ UNCHANGED <<nf, ext>>

WaitRelock(t) ==
    /\ pc[t] = "reacq"
    /\ IF owner = None
       THEN Regain(t)
       ELSE Park(t, "relock")
    /\ UNCHANGED <<value, cvq, ret, local, inwith, nacq, nrel, prog>>
    /\ UNCHANGED <<nf, ext>>

\* Mutant: a woken waiter returns from the wait without relocking the mutex.
WaitReturnUnlocked(t) ==
    /\ pc[t] = "relock"
    /\ guard' = [guard EXCEPT ![t] = "Acquired"]
    /\ pc' = [pc EXCEPT ![t] = "idle"]
    /\ mq' = Without(mq, t)
    /\ UNCHANGED <<owner, value, cvq, ret, local, inwith, nacq, nrel, prog>>
    /\ UNCHANGED <<nf, ext>>

\* A waiter parked on the mutex finds it free and takes it: the wait call
\* returns, the same guard is Acquired again.
WaitReturn(t) ==
    /\ pc[t] = "relock"
    /\ owner = None
    /\ Regain(t)
    /\ UNCHANGED <<value, cvq, ret, local, inwith, nacq, nrel, prog>>
    /\ UNCHANGED <<nf, ext>>

\* ----------------------------------------------------------- combinators
\* Monitor::with_lock: f(self.lock()). The guard is passed to f by value.
WithLock(t) ==
    /\ CanCall(t) /\ ~inwith[t] /\ May(t, "with_lock") /\ Adv(t)
    /\ IF owner = None
       THEN NewGuard(t, "Some") /\ UNCHANGED <<pc, mq>>
       ELSE Park(t, "lock")
    /\ inwith' = [inwith EXCEPT ![t] = TRUE]
    /\ UNCHANGED <<value, cvq, local, nrel>>
    /\ CallF(t, owner = None) /\ UNCHANGED ext

\* Monitor::try_with_lock: self.try_lock().map(f).
TryWithLock(t) ==
    /\ CanCall(t) /\ ~inwith[t] /\ May(t, "try_with_lock") /\ Adv(t)
    /\ IF owner = None
       THEN /\ NewGuard(t, "Some")
            /\ inwith' = [inwith EXCEPT ![t] = TRUE]
       ELSE /\ ret' = [ret EXCEPT ![t] = "None"]
            /\ UNCHANGED <<owner, guard, nacq, inwith>>
    /\ UNCHANGED <<value, cvq, mq, pc, local, nrel>>
    /\ CallF(t, owner = None) /\ UNCHANGED ext

\* Monitor::try_with_lock_for / try_with_lock_until.
TryWithLockFor(t) ==
    /\ CanCall(t) /\ ~inwith[t] /\ May(t, "try_with_lock_for") /\ Adv(t)
    /\ BoundedLock(t)
    /\ inwith' = [inwith EXCEPT ![t] = TRUE]
    /\ CallF(t, owner = None) /\ UNCHANGED ext

TryWithLockUntil(t) ==
    /\ CanCall(t) /\ ~inwith[t] /\ May(t, "try_with_lock_until") /\ Adv(t)
    /\ BoundedLock(t)
    /\ inwith' = [inwith EXCEPT ![t] = TRUE]
    /\ CallF(t, owner = None) /\ UNCHANGED ext

\* Mutant: the guard handed to f is dropped without unlocking the mutex.
FReturnHeld(t, leak) ==
    /\ Holds(t) /\ inwith[t] /\ May(t, "f_return") /\ Adv(t)
    /\ owner' = owner
    /\ nrel' = IF leak THEN nrel ELSE [nrel EXCEPT ![t] = @ + 1]
    /\ guard' = [guard EXCEPT ![t] = "none"]
    /\ inwith' = [inwith EXCEPT ![t] = FALSE]
    /\ ret' = [ret EXCEPT ![t] = "f_done"]
    /\ UNCHANGED <<value, cvq, mq, pc, local, nacq>>
    /\ UNCHANGED <<nf, ext>>

\* f returns and with it the combinator, with f's result. f owns the guard it
\* was given: it either lets it drop (leak = FALSE) or leaks it with
\* mem::forget (leak = TRUE), in which case no unlock runs.
FReturn(t, leak) ==
    /\ Holds(t) /\ inwith[t] /\ May(t, "f_return") /\ Adv(t)
    /\ IF leak THEN UNCHANGED <<owner, nrel>> ELSE Unlock(t)
    /\ guard' = [guard EXCEPT ![t] = "none"]
    /\ inwith' = [inwith EXCEPT ![t] = FALSE]
    /\ ret' = [ret EXCEPT ![t] = "f_done"]
    /\ UNCHANGED <<value, cvq, mq, pc, local, nacq>>
    /\ UNCHANGED <<nf, ext>>

\* ------------------------------------------------------ the unsafe surface
\* Monitor::force_unlock / force_unlock_fair are unsafe: the caller must hold
\* the mutex in the current context with the guard forgotten (mem::forget).
MayForce(t) == CanCall(t) /\ ~inwith[t] /\ owner = t /\ guard[t] = "none"

\* Monitor::force_unlock: mutex.force_unlock(), a plain unlock. The mutex
\* becomes free; parked threads and new arrivals race for it.
ForceUnlock(t) ==
    /\ MayForce(t) /\ May(t, "force_unlock") /\ Adv(t)
    /\ Unlock(t)
    /\ ret' = [ret EXCEPT ![t] = "unlocked"]
    /\ UNCHANGED <<value, cvq, mq, guard, pc, local, inwith, nacq>>
    /\ UNCHANGED <<nf, ext>>

\* Mutant: force_unlock_fair that unlocks like force_unlock, without handing
\* the mutex to anyone.
ForceUnlockFairPlain(t) ==
    /\ MayForce(t) /\ May(t, "force_unlock_fair") /\ Adv(t)
    /\ Unlock(t)
    /\ ret' = [ret EXCEPT ![t] = "unlocked_fair"]
    /\ UNCHANGED <<value, cvq, mq, guard, pc, local, inwith, nacq>>
    /\ UNCHANGED <<nf, ext>>

\* Monitor::force_unlock_fair: mutex.force_unlock_fair(). With nobody parked on
\* the mutex it is a plain unlock; otherwise the mutex stays locked and is
\* handed to the thread at the head of the mutex queue, which is a thread
\* parked in lock / try_lock_for / try_lock_until (its call returns a new
\* guard) or a waiter relocking after a notification or a timeout (its wait
\* returns).
ForceUnlockFair(t) ==
    /\ MayForce(t) /\ May(t, "force_unlock_fair") /\ Adv(t)
    /\ nrel' = [nrel EXCEPT ![t] = @ + 1]
    /\ IF mq = <<>>
       THEN /\ owner' = None
            /\ ret' = [ret EXCEPT ![t] = "unlocked_fair"]
            /\ UNCHANGED <<mq, guard, pc, nacq, nf>>
       ELSE LET h == Head(mq)
                fresh == pc[h] \in {"lock", "lock_for"}
            IN  /\ owner' = h
                /\ mq' = Tail(mq)
                /\ guard' = [guard EXCEPT ![h] = "Acquired"]
                /\ pc' = [pc EXCEPT ![h] = "idle"]
                /\ nacq' = IF fresh THEN [nacq EXCEPT ![h] = @ + 1] ELSE nacq
                /\ ret' = [ret EXCEPT ![t] = "unlocked_fair",
                                      ![h] = IF fresh THEN "Some" ELSE @]
                /\ CallF(h, fresh /\ inwith[h])
    /\ UNCHANGED <<value, cvq, local, inwith>>
    /\ UNCHANGED ext

\* ------------------------------------------------- the public constructor
\* MonitorGuard::new is pub: a caller can build a MonitorGuard from any
\* Condvar c and the MutexGuard of any Mutex m it has locked. (The Monitor's
\* own cv and MutexGuard are private, so c and m are the caller's.)
GuardNew(t, c, m) ==
    /\ CanCall(t) /\ May(t, "guard_new") /\ Adv(t)
    /\ ext[t] = <<>>
    /\ \A u \in Threads : IF ext[u] = <<>> THEN TRUE ELSE ext[u][2] # m
    /\ ext' = [ext EXCEPT ![t] = <<c, m>>]
    /\ UNCHANGED <<owner, value, cvq, mq, guard, pc, ret, local, inwith, nacq, nrel, nf>>

\* The guard built with MonitorGuard::new is dropped.
GuardNewDrop(t) ==
    /\ CanCall(t) /\ May(t, "drop") /\ Adv(t)
    /\ ext[t] # <<>>
    /\ ext' = [ext EXCEPT ![t] = <<>>]
    /\ UNCHANGED <<owner, value, cvq, mq, guard, pc, ret, local, inwith, nacq, nrel, nf>>

\* ------------------------------------------------------- specifications
\* Every thread makes up to MaxOps calls of the safe surface, any calls.
Next ==
    \E t \in Threads :
        \/ Lock(t)
        \/ TryLock(t)
        \/ TryLockFor(t)
        \/ TryLockUntil(t)
        \/ LockAcquire(t)
        \/ LockTimeout(t)
        \/ Read(t)
        \/ Write(t)
        \/ Drop(t)
        \/ NotifyOne(t)
        \/ NotifyAll(t)
        \/ Wait(t)
        \/ WaitFor(t)
        \/ WaitUntil(t)
        \/ WaitTimeout(t)
        \/ WaitRelock(t)
        \/ WaitReturn(t)
        \/ WithLock(t)
        \/ TryWithLock(t)
        \/ TryWithLockFor(t)
        \/ TryWithLockUntil(t)
        \/ \E leak \in BOOLEAN : FReturn(t, leak)

Spec == Init /\ [][Next]_vars

\* Scenario A: every thread runs NumCycles lock / read / write value + 1 / drop
\* cycles on a Monitor::new(0).
InitCounter == InitMonitor /\ prog = [t \in Threads |-> CounterProg]

NextCounter ==
    \E t \in Threads :
        \/ Lock(t)
        \/ LockAcquire(t)
        \/ Read(t)
        \/ Write(t)
        \/ Drop(t)

SpecCounter == InitCounter /\ [][NextCounter]_vars

\* Wait / notify scenarios: the last thread is the notifier (lock, mutate,
\* notify, drop), the others are waiters (lock, check, wait, read, drop).
Notifier == NumThreads
Waiters == Threads \ {Notifier}

ScenarioProg(n) == [t \in Threads |-> IF t = Notifier THEN NotifierProg(n) ELSE WaiterProg]

StepHandoff(t) ==
    \/ Lock(t)
    \/ LockAcquire(t)
    \/ Read(t)
    \/ Write(t)
    \/ Wait(t)
    \/ NotifyOne(t)
    \/ WaitReturn(t)
    \/ Drop(t)

InitHandoff == InitMonitor /\ prog = ScenarioProg("notify_one")
NextHandoff == \E t \in Threads : StepHandoff(t)
\* A thread that can run eventually takes its next step.
FairHandoff == \A t \in Threads : WF_vars(StepHandoff(t))
SpecHandoff == InitHandoff /\ [][NextHandoff]_vars /\ FairHandoff

StepBroadcast(t) ==
    \/ Lock(t)
    \/ LockAcquire(t)
    \/ Read(t)
    \/ Write(t)
    \/ Wait(t)
    \/ NotifyAll(t)
    \/ WaitReturn(t)
    \/ Drop(t)

InitBroadcast == InitMonitor /\ prog = ScenarioProg("notify_all")
NextBroadcast == \E t \in Threads : StepBroadcast(t)
FairBroadcast == \A t \in Threads : WF_vars(StepBroadcast(t))
SpecBroadcast == InitBroadcast /\ [][NextBroadcast]_vars /\ FairBroadcast

\* The safe public surface as a caller outside the crate sees it: the
\* Monitor's blocking acquisition, guard access, wait / notify and drop, and
\* MonitorGuard::new.
NextPublic ==
    \E t \in Threads :
        \/ Lock(t)
        \/ LockAcquire(t)
        \/ Read(t)
        \/ Write(t)
        \/ Drop(t)
        \/ Wait(t)
        \/ NotifyOne(t)
        \/ WaitReturn(t)
        \/ \E c, m \in Foreign : GuardNew(t, c, m)
        \/ GuardNewDrop(t)

SpecPublic == Init /\ [][NextPublic]_vars

\* The unsafe surface next to the calls that leak a lock (with_lock whose f
\* forgets the guard) and that park threads on the mutex.
NextUnsafe ==
    \E t \in Threads :
        \/ Lock(t)
        \/ TryLockFor(t)
        \/ LockAcquire(t)
        \/ LockTimeout(t)
        \/ Drop(t)
        \/ WaitFor(t)
        \/ NotifyOne(t)
        \/ WaitTimeout(t)
        \/ WaitRelock(t)
        \/ WaitReturn(t)
        \/ WithLock(t)
        \/ \E leak \in BOOLEAN : FReturn(t, leak)
        \/ ForceUnlock(t)
        \/ ForceUnlockFair(t)

SpecUnsafe == Init /\ [][NextUnsafe]_vars

\* Systems without waits: every thread runs NumCycles cycles of finite work
\* on the value, each thread either with lock() ... drop or with with_lock(f)
\* where f lets its guard drop; no nested acquisition, no wait calls.
StepNoWait(t) ==
    \/ Lock(t)
    \/ WithLock(t)
    \/ LockAcquire(t)
    \/ Read(t)
    \/ Write(t)
    \/ Drop(t)
    \/ FReturn(t, FALSE)

InitNoWait == InitMonitor /\ prog \in [Threads -> {CounterProg, WithLockProg}]
NextNoWait == \E t \in Threads : StepNoWait(t)
FairNoWait == \A t \in Threads : WF_vars(StepNoWait(t))
SpecNoWait == InitNoWait /\ [][NextNoWait]_vars /\ FairNoWait

\* ================================================================ claims
Acquired == {t \in Threads : guard[t] = "Acquired"}

\* A thread suspended in a wait that no notification or timeout has ended yet.
Suspended(t) == guard[t] = "Waiting" /\ pc[t] \in {"wait", "wait_for"}

\* C1. Mutual exclusion: at most one guard is Acquired, the Acquired guard's
\* thread is the one holding the mutex, and a guard suspended in a wait is
\* Waiting and does not hold the mutex.
MutualExclusion ==
    /\ Cardinality(Acquired) <= 1
    /\ \A t \in Threads :
          /\ guard[t] = "Acquired" => owner = t
          /\ guard[t] = "Waiting" => owner # t /\ pc[t] # "idle"
          /\ pc[t] \in {"wait", "wait_for", "reacq", "relock"} => guard[t] = "Waiting"

\* One guard Acquired while another is Waiting and a third thread is parked in
\* an acquisition call.
MutualExclusionWitness ==
    \E a, b, c \in Threads :
        /\ guard[a] = "Acquired" /\ guard[b] = "Waiting"
        /\ pc[c] \in {"lock", "lock_for"} /\ guard[c] = "none"

\* C2. No lost updates: when every thread has finished its NumCycles
\* lock / read / write value + 1 / drop cycles, the value is exactly
\* 0 + NumThreads * NumCycles.
AllDone == \A t \in Threads : prog[t] = <<>>

NoLostUpdates == AllDone => value = NumThreads * NumCycles

NoLostUpdatesWitness ==
    /\ AllDone
    /\ value = NumThreads * NumCycles
    /\ \A t \in Threads : nacq[t] = NumCycles /\ nrel[t] = NumCycles

\* C3. Lost-wakeup avoidance: a thread that has released the mutex in a wait is
\* registered on the condition variable in the same step, so every notify_all
\* issued while it is suspended wakes it, and every notify_one issued while
\* some thread is suspended wakes a suspended thread (this one if it is alone).
NoLostWakeup ==
    [][\A u \in Threads :
         /\ NotifyAll(u) => \A t \in Threads : Suspended(t) => pc'[t] = "relock"
         /\ NotifyOne(u) =>
               ((\E t \in Threads : Suspended(t))
                  => \E t \in Threads : Suspended(t) /\ pc'[t] = "relock")
         /\ (Wait(u) \/ WaitFor(u) \/ WaitUntil(u)) =>
               owner' = None /\ Suspended(u)' /\ u \in Range(cvq')]_vars

\* A waiter that checked the value under its guard has been moved to the mutex
\* queue by a notifier that acquired the lock after the wait began.
NoLostWakeupWitness ==
    \E t, u \in Threads :
        /\ t # u
        /\ pc[t] = "relock" /\ ret[t] \in {"woken", "notified"}
        /\ Holds(u) /\ nacq[t] >= 1

\* C4. Wait / notify hand-off: a waiter that the notifier's notify_one moved
\* off the condition variable (after the notifier acquired the lock and
\* mutated the value) eventually has returned from wait() holding the lock,
\* and the value it then reads is the notifier's.
Woken(t) == pc[t] = "relock" /\ ret[t] = "woken"

ReadAfterWait(t) ==
    /\ prog[t] = <<"drop">>
    /\ Holds(t) /\ owner = t
    /\ local[t] = 1 /\ value = 1

HandOff == \A w \in Waiters : Woken(w) ~> ReadAfterWait(w)

HandOffWitness == \E w \in Waiters : ReadAfterWait(w) /\ ret[w] = "woken"

\* C5. notify_all wakes every waiter: a notify_all moves every thread
\* suspended in a wait off the condition variable; each of them eventually
\* returns from wait(), alone in holding the lock when it does, and (every
\* woken thread dropping its guard) eventually all of them have finished.
Finished(t) == prog[t] = <<>> /\ guard[t] = "none" /\ pc[t] = "idle"

NotifyAllWakesAll ==
    /\ [][\A u \in Threads :
            /\ NotifyAll(u) =>
                  /\ cvq' = <<>>
                  /\ \A t \in Threads : Suspended(t) => Woken(t)'
            /\ (pc[u] = "relock" /\ pc'[u] # "relock") =>
                  /\ owner' = u /\ Holds(u)'
                  /\ Acquired' = {u}]_vars
    /\ \A w \in Waiters : Woken(w) ~> Finished(w)

\* Every waiter was suspended when notify_all ran, and all have finished.
NotifyAllWakesAllWitness ==
    /\ \A w \in Waiters : ret[w] = "woken" /\ Finished(w)
    /\ Cardinality(Waiters) >= 2

\* C6 as stated: try_lock returns None exactly when another thread holds the
\* lock, and Some(guard) otherwise.
TryLockNoneOnlyIfHeldByOther ==
    [][\A t \in Threads :
         TryLock(t) => (ret'[t] = "None" <=> owner \notin {None, t})]_vars

\* C6, amended. try_lock never blocks; it returns None if the lock is held by
\* any thread, the caller included, and Some(guard) otherwise (so it succeeds
\* when every other guard is suspended in a wait or has been dropped); a
\* None result leaves the owner, the waiters, the queue and the value as
\* they were.
TryLockResult ==
    [][\A t \in Threads :
         TryLock(t) =>
           /\ pc'[t] = "idle"
           /\ IF owner = None
              THEN ret'[t] = "Some" /\ owner' = t /\ guard'[t] = "Acquired"
              ELSE /\ ret'[t] = "None"
                   /\ UNCHANGED <<owner, guard, cvq, mq, value, nacq>>]_vars

\* A try_lock failed against a holder, and another succeeded while a guard was
\* suspended in a wait.
TryLockResultWitness ==
    \E t, u, v \in Threads :
        /\ t # u /\ u # v /\ t # v
        /\ pc[t] = "idle" /\ ret[t] = "None" /\ guard[t] = "none" /\ nacq[t] = 0
        /\ Holds(u) /\ ret[u] = "Some"
        /\ Suspended(v)

\* C7. Guard drop releases the lock exactly once: every unlock is the drop of
\* an Acquired guard and takes the mutex from held-by-this-thread to free;
\* every guard created has been released once, is still alive, or was leaked;
\* a thread all of whose guards were dropped holds nothing.
Live(t) == IF guard[t] # "none" THEN 1 ELSE 0
Leaked(t) == IF guard[t] = "none" /\ owner = t THEN 1 ELSE 0

DropReleasesOnce ==
    /\ [](\A t \in Threads :
            /\ nacq[t] = nrel[t] + Live(t) + Leaked(t)
            /\ (guard[t] = "none" /\ nrel[t] = nacq[t]) => owner # t)
    /\ [][\A t \in Threads :
            /\ nrel'[t] # nrel[t] =>
                  /\ nrel'[t] = nrel[t] + 1
                  /\ guard[t] = "Acquired" /\ owner = t
                  /\ guard'[t] = "none" /\ owner' = None
            /\ (Drop(t) \/ FReturn(t, FALSE)) => nrel'[t] = nrel[t] + 1]_vars

\* A thread dropped a guard, the lock went free and the thread acquired again.
DropReleasesOnceWitness ==
    \E t \in Threads :
        nrel[t] = 1 /\ nacq[t] = 2 /\ Holds(t) /\ ~inwith[t]

\* C8 as stated: when a combinator that acquired the lock returns, the lock
\* is released, whatever f did with the guard.
CombinatorAlwaysReleases ==
    [][\A t \in Threads :
         (inwith[t] /\ Holds(t) /\ ~inwith'[t]) => owner' # t]_vars

\* C8, amended. When a combinator that acquired the lock returns, the guard it
\* gave to f is gone; the lock is released if f let the guard drop, and is
\* still held on the caller's behalf if f leaked it (mem::forget).
CombinatorReleasesUnlessLeaked ==
    [][\A t \in Threads :
         (inwith[t] /\ Holds(t) /\ ~inwith'[t]) =>
           /\ guard'[t] = "none"
           /\ \/ nrel'[t] = nrel[t] + 1 /\ owner' = None
              \/ nrel'[t] = nrel[t] /\ owner' = t
           /\ FReturn(t, FALSE) => owner' = None]_vars

\* A combinator has returned after f let its guard drop, and the lock is free.
CombinatorReleasesWitness ==
    \E t \in Threads :
        /\ ~inwith[t] /\ pc[t] = "idle" /\ guard[t] = "none"
        /\ nacq[t] = 1 /\ nrel[t] = 1
        /\ owner = None /\ ret[t] = "f_done"

\* C9. Bounded wait always reacquires: a wait ends only with the same guard
\* Acquired again and the mutex held by the caller, whatever the outcome; the
\* indicator is "timed out" when the bound elapsed first and "notified" when
\* a notification ended the wait, and is not changed by the reacquisition.
BoundedWaitReacquires ==
    /\ [](\A t \in Threads :
            /\ pc[t] = "reacq" => ret[t] = "timed_out"
            /\ pc[t] = "relock" => ret[t] \in {"woken", "notified", "timed_out"})
    /\ [][\A t \in Threads :
            /\ (guard[t] = "Waiting" /\ guard'[t] # "Waiting") =>
                  /\ owner = None /\ owner' = t
                  /\ Holds(t)'
                  /\ ret'[t] = ret[t]
            /\ WaitTimeout(t) => ret'[t] = "timed_out" /\ guard'[t] = "Waiting"
            /\ (pc[t] = "wait_for" /\ pc'[t] = "relock") =>
                  ret'[t] = "notified" /\ guard'[t] = "Waiting"]_vars

\* One bounded wait has returned "timed out" with the lock held, another was
\* ended by a notification.
BoundedWaitReacquiresWitness ==
    \E t, u \in Threads :
        /\ Holds(t) /\ ret[t] = "timed_out" /\ owner = t
        /\ ret[u] = "notified"

\* C10. Bounded acquisition is all-or-nothing: try_lock_for / try_lock_until
\* return either Some(guard) with the caller the sole holder, or None with
\* the owner, the guards, the waiters and the value untouched and the caller
\* no longer queued on the mutex.
BoundedLockStep(t) ==
    \/ pc[t] = "lock_for" /\ pc'[t] = "idle"
    \/ (TryLockFor(t) \/ TryLockUntil(t)) /\ pc'[t] = "idle"

BoundedAcquireAllOrNothing ==
    [][\A t \in Threads :
         BoundedLockStep(t) =>
           \/ /\ ret'[t] = "Some"
              /\ owner = None /\ owner' = t
              /\ Acquired' = {t}
              /\ nacq'[t] = nacq[t] + 1
           \/ /\ ret'[t] = "None"
              /\ UNCHANGED <<owner, guard, cvq, value, nacq, nrel>>
              /\ mq' = Without(mq, t)
              /\ t \notin Range(mq')]_vars

\* A bounded acquisition gave up against a holder that is still holding, and
\* the caller is not queued.
BoundedAcquireWitness ==
    \E t, u \in Threads :
        /\ t # u
        /\ pc[t] = "idle" /\ ret[t] = "None" /\ guard[t] = "none"
        /\ prog[t] = <<"*", "*">> /\ mq = <<>>
        /\ Holds(u) /\ prog[u] = <<"*", "*">>

\* C11. The try / bounded combinators invoke f exactly once when the
\* acquisition succeeds (with the fresh guard, f not already running) and
\* never when it fails; a failure returns None and leaves the value, the
\* guards and the owner as they were.
TryCombSuccess(t) ==
    \/ (TryWithLock(t) \/ TryWithLockFor(t) \/ TryWithLockUntil(t)) /\ owner = None
    \/ inwith[t] /\ pc[t] = "lock_for" /\ pc'[t] = "idle" /\ ret'[t] = "Some"

TryCombFailure(t) ==
    \/ TryWithLock(t) /\ owner # None
    \/ inwith[t] /\ pc[t] = "lock_for" /\ pc'[t] = "idle" /\ ret'[t] # "Some"

FOnceOnSuccess ==
    [][\A t \in Threads :
         /\ nf'[t] # nf[t] =>
               /\ nf'[t] = nf[t] + 1
               /\ ~(inwith[t] /\ Holds(t))
               /\ nacq'[t] = nacq[t] + 1
               /\ inwith'[t] /\ Holds(t)' /\ owner' = t
         /\ TryCombSuccess(t) => nf'[t] = nf[t] + 1
         /\ TryCombFailure(t) =>
               /\ nf'[t] = nf[t]
               /\ ret'[t] = "None" /\ ~inwith'[t]
               /\ UNCHANGED <<value, guard, owner, nacq>>]_vars

\* One thread's combinator ran f once and returned; another thread's failed
\* and ran nothing.
FOnceOnSuccessWitness ==
    \E t, u \in Threads :
        /\ t # u
        /\ nf[t] = 1 /\ ret[t] = "f_done" /\ ~inwith[t]
        /\ nf[u] = 0 /\ ret[u] = "None" /\ ~inwith[u] /\ nacq[u] = 0

\* C12. Pairing invariant on the safe surface: every live MonitorGuard was
\* created by an acquisition call on the Monitor, so its condition variable
\* and its lock token are the Monitor's own.
LiveGuards ==
    {<<Own, Own>> : t \in {u \in Threads : guard[u] # "none"}}
        \cup {ext[t] : t \in {u \in Threads : ext[u] # <<>>}}

GuardsOnlyFromAcquisition == \A g \in LiveGuards : g = <<Own, Own>>

\* C13. notify_one moves at most one thread off the condition variable, and
\* only a thread that was suspended there; with nobody suspended it changes
\* nothing (no notification is stored); it does not release the lock: the
\* notifier still holds it after the call, and a woken waiter returns from its
\* wait only in a step that finds the mutex free.
NotifyOneKeepsLock ==
    [][\A u \in Threads :
         /\ NotifyOne(u) =>
               /\ LET moved == {t \in Threads : pc'[t] # pc[t]} IN
                     /\ Cardinality(moved) <= 1
                     /\ \A t \in moved : Suspended(t) /\ pc'[t] = "relock"
                     /\ Range(cvq') = Range(cvq) \ moved
                     /\ (cvq # <<>>) => Cardinality(moved) = 1
               /\ (cvq = <<>>) => UNCHANGED <<owner, value, cvq, mq, guard, pc, ret>>
               /\ owner = u /\ owner' = u /\ Holds(u)'
         /\ (pc[u] = "relock" /\ pc'[u] = "idle") => owner = None /\ owner' = u]_vars

\* A notify_one has moved one of two suspended waiters; the notifier still
\* holds the lock and the other waiter is still suspended.
NotifyOneKeepsLockWitness ==
    \E n, a, b \in Threads :
        /\ Holds(n) /\ owner = n
        /\ pc[a] = "relock" /\ ret[a] = "woken" /\ a \in Range(mq)
        /\ pc[b] = "wait" /\ b \in Range(cvq)

\* C14. A suspended thread resumes only via notification or timeout expiry:
\* a thread leaves wait() only in a notify_one / notify_all step of another
\* thread, taken while it is suspended; a thread leaves wait_for / wait_until
\* only in such a step or when its own bound elapses; and a wait returns only
\* after one of the two.
NotifiedBy(t) ==
    \E u \in Threads \ {t} :
        /\ Holds(u)
        /\ NotifyOne(u) \/ NotifyAll(u)

ResumeOnlyByNotifyOrTimeout ==
    [][\A t \in Threads :
         /\ (pc[t] = "wait" /\ pc'[t] # "wait") =>
               NotifiedBy(t) /\ pc'[t] = "relock" /\ ret'[t] = "woken"
         /\ (pc[t] = "wait_for" /\ pc'[t] # "wait_for") =>
               \/ NotifiedBy(t) /\ pc'[t] = "relock" /\ ret'[t] = "notified"
               \/ WaitTimeout(t) /\ ret'[t] = "timed_out"
         /\ (guard[t] = "Waiting" /\ guard'[t] # "Waiting") =>
               pc[t] \in {"reacq", "relock"}]_vars

\* A wait() has returned after a notification while a bounded wait of another
\* thread has run into its bound.
ResumeWitness ==
    \E t, u \in Threads :
        /\ Holds(t) /\ ret[t] = "woken"
        /\ pc[u] \in {"reacq", "relock"} /\ ret[u] = "timed_out"

\* C15. The guarded value is mutated only by the thread holding the live
\* guard: every step that changes the value is a DerefMut store by the thread
\* whose guard is Acquired and which owns the mutex, and a thread whose guard
\* is suspended in a wait neither reads nor writes until the wait has returned.
OnlyHolderTouchesValue ==
    [][/\ value' # value =>
             \E u \in Threads : Holds(u) /\ owner = u /\ Acquired = {u} /\ Write(u)
       /\ \A t \in Threads :
             /\ local'[t] # local[t] => Holds(t) /\ owner = t /\ Read(t)
             /\ guard[t] = "Waiting" => ~Read(t) /\ ~Write(t)
             /\ guard[t] = "none" => ~Read(t) /\ ~Write(t)]_vars

\* The holder has changed the value while another thread's guard, holding an
\* older reading, is suspended in a wait.
OnlyHolderWitness ==
    \E t, u \in Threads :
        /\ Suspended(t) /\ local[t] = 0
        /\ Holds(u) /\ value = 1 /\ local[u] = 0

\* C16 as stated: at most one live guard (Acquired or suspended in a wait)
\* exists per Monitor at any instant.
LiveSet == {t \in Threads : guard[t] # "none"}
WaitingSet == {t \in Threads : guard[t] = "Waiting"}

AtMostOneLiveGuard == Cardinality(LiveSet) <= 1

\* C16, amended. At most one live guard that is not suspended in a wait
\* exists per Monitor at any instant, and it is the mutex owner's; guards
\* suspended in wait / wait_for / wait_until stay live and coexist with it.
AtMostOneLiveUnsuspended ==
    /\ Cardinality(LiveSet \ WaitingSet) <= 1
    /\ Cardinality(LiveSet) <= 1 + Cardinality(WaitingSet)
    /\ \A t \in LiveSet \ WaitingSet : owner = t
    /\ \A t \in WaitingSet : pc[t] \in {"wait", "wait_for", "reacq", "relock"}

\* Three live guards at once: one Acquired, two suspended in a wait.
LiveGuardsWitness ==
    /\ Cardinality(LiveSet) = 3
    /\ Cardinality(WaitingSet) = 2
    /\ \E t \in LiveSet : Holds(t)

\* C17 as stated: force_unlock_fair called with a thread blocked in lock /
\* try_lock_for / try_lock_until makes the longest-blocked of those threads
\* the next holder of the lock.
Lockers == {u \in Threads : pc[u] \in {"lock", "lock_for"}}
Pos(u) == CHOOSE i \in 1..Len(mq) : mq[i] = u
LongestLocker == CHOOSE u \in Lockers : \A v \in Lockers : Pos(u) <= Pos(v)

FairHandsToLongestLocker ==
    [][\A t \in Threads :
          ForceUnlockFair(t) /\ Lockers # {} => owner' = LongestLocker]_vars

\* C17, amended. force_unlock_fair called with a thread parked on the mutex
\* hands the lock, still locked, to the thread at the head of the mutex
\* queue, be it a blocked acquirer or a waiter relocking after a notification
\* or timeout; nobody else acquires in that step. With nobody parked it frees
\* the lock. force_unlock only frees the lock and hands it to nobody.
FairHandsToQueueHead ==
    [][\A t \in Threads :
          /\ ForceUnlockFair(t) /\ mq # <<>> =>
                /\ owner' = Head(mq)
                /\ guard'[Head(mq)] = "Acquired" /\ pc'[Head(mq)] = "idle"
                /\ mq' = Tail(mq)
                /\ \A u \in Threads \ {Head(mq)} : guard'[u] = guard[u] /\ pc'[u] = pc[u]
          /\ ForceUnlockFair(t) /\ mq = <<>> => owner' = None
          /\ ForceUnlock(t) => owner' = None /\ mq' = mq /\ guard' = guard]_vars

\* force_unlock_fair has handed the lock to a timed-out waiter while a thread
\* blocked in lock() is still parked.
FairHandOffWitness ==
    \E t, h, u \in Threads :
        /\ ret[t] = "unlocked_fair" /\ guard[t] = "none"
        /\ owner = h /\ Holds(h) /\ ret[h] = "timed_out"
        /\ pc[u] = "lock" /\ mq = <<u>>

\* C18. The bound of wait_for / wait_until limits only the suspension: once
\* it has elapsed, the call stays unreturned (guard Waiting) through every
\* step taken while another thread holds the lock, and it returns only by
\* taking a free lock.
TimedOutPending(t) ==
    /\ ret[t] = "timed_out"
    /\ pc[t] \in {"reacq", "relock"}

TimedOutWaitNeedsLock ==
    [][\A t \in Threads :
          TimedOutPending(t) =>
            /\ guard[t] = "Waiting"
            /\ owner # None => TimedOutPending(t)' /\ guard'[t] = "Waiting"
            /\ ~TimedOutPending(t)' => owner = None /\ owner' = t /\ Holds(t)']_vars

\* A bounded wait whose bound has elapsed is parked on the mutex that another
\* thread holds.
TimedOutWaitWitness ==
    \E t, u \in Threads :
        /\ TimedOutPending(t) /\ pc[t] = "relock"
        /\ u # t /\ Holds(u) /\ owner = u

\* C19. The lock is not reentrant. While a thread holds an Acquired guard,
\* its try_lock returns None, its try_lock_for / try_lock_until park and end
\* only with None, and its lock / with_lock park and never return.
Reacquiring(t) == guard[t] = "Acquired" /\ owner = t

NotReentrant ==
    [][\A t \in Threads :
          Reacquiring(t) =>
            /\ TryLock(t) => ret'[t] = "None"
            /\ TryLockFor(t) \/ TryLockUntil(t) => pc'[t] = "lock_for"
            /\ Lock(t) \/ WithLock(t) => pc'[t] = "lock"
            /\ pc[t] = "lock_for" /\ pc'[t] # "lock_for" => ret'[t] = "None"
            /\ pc[t] = "lock" => pc'[t] = "lock"
            /\ nacq'[t] = nacq[t]]_vars

\* A thread that called lock() while holding its own guard: parked for good.
SelfDeadlockWitness ==
    \E t \in Threads :
        /\ Reacquiring(t) /\ pc[t] = "lock" /\ ~inwith[t]
        /\ prog[t] # <<>>

\* C20. Deadlock freedom without waits: while some thread is unfinished, some
\* unfinished thread can take a step, and under fair scheduling all threads
\* eventually finish with the lock free.
Unfinished == {t \in Threads : ~Finished(t)}

NoWaitNoDeadlock ==
    /\ [](Unfinished # {} => \E t \in Unfinished : ENABLED StepNoWait(t))
    /\ <>[](Unfinished = {} /\ owner = None)

\* All threads are done, the lock is free, and both lock() and with_lock()
\* were used.
NoWaitWitness ==
    /\ Unfinished = {} /\ owner = None
    /\ value = NumThreads * NumCycles
    /\ \E t, u \in Threads : nf[t] = NumCycles /\ nf[u] = 0

====
